---- MODULE Spec2Model ----
(***************************************************************************)
(* Model of ros_groundstation/artificial_horizon.py: the ArtificialHorizon *)
(* widget, its paint pipeline (drawArtificialHorizon and the renderers it  *)
(* calls), the painter's transform and pen, and the telemetry sources the  *)
(* renderers read (StateSub, GPSDataSub, ConComSub, ConInSub, BatterySub). *)
(*                                                                         *)
(* Arithmetic is exact.  Lengths on the painter are in 1/1000 pixel, and   *)
(* height fractions are in 1/1000 of the viewport height, so the constant  *)
(* pitchInterval = 0.013 is the integer 13.  Angles delivered by the       *)
(* telemetry sources are in 1/Res degree; floor() is floor division.       *)
(***************************************************************************)
EXTENDS Integers, Sequences, FiniteSets, TLC

\* ---------------------------------------------------------------- bounds
Res == 2            \* telemetry values are multiples of 1/Res of their unit
MaxResize == 1      \* viewport sides are 600 .. 600 + MaxResize
MaxSat == 6         \* satellite counts 0 .. MaxSat
MaxChi == 400       \* headings swept over -MaxChi .. MaxChi degrees
MaxTape == 45       \* speeds and altitudes swept over -MaxTape .. MaxTape

\* ------------------------------------------------------ program constants
pitchInterval == 13         \* 0.013, in thousandths

\* ------------------------------------------------ painter transform algebra
\* A transform is x |-> R(ang) x + SUM_{e \in t} R(e.a) e.v : a rotation by
\* ang degrees and a translation kept as a sum of integer vectors rotated by
\* angles in 0..89.  Rotations by multiples of 90 act exactly on the integer
\* vectors, and vectors at the same angle are added, so two compositions of
\* translate/rotate calls that use at most two angles modulo 90 denote the
\* same affine map exactly when their records are equal.
Identity == [ang |-> 0, t |-> {}]

Quarter(v, k) ==
    CASE k = 0 -> v
      [] k = 1 -> <<-v[2], v[1]>>
      [] k = 2 -> <<-v[1], -v[2]>>
      [] k = 3 -> <<v[2], -v[1]>>

AddTerm(t, ang, v) ==
    LET n == ang % 360
        b == n % 90
        w == Quarter(v, n \div 90)
        old == {e \in t : e.a = b}
        cur == IF old = {} THEN <<0, 0>> ELSE (CHOOSE e \in old : TRUE).v
        s == <<cur[1] + w[1], cur[2] + w[2]>>
    IN  (t \ old) \cup (IF s = <<0, 0>> THEN {} ELSE {[a |-> b, v |-> s]})

\* QPainter.translate(dx, dy): the new transform is M o T(v)
Translate(M, v) == [M EXCEPT !.t = AddTerm(M.t, M.ang, v)]

\* QPainter.rotate(a): the new transform is M o R(a)
Rotate(M, a) == [M EXCEPT !.ang = (M.ang + a) % 360]

\* Negation of a vector
Neg(v) == <<-v[1], -v[2]>>

\* translate(c); rotate(a); translate(-c): a rotation by a about the point c
RotateAbout(M, c, a) == Translate(Rotate(Translate(M, c), a), Neg(c))

\* ------------------------------------------------------------------ state
VARIABLES
    interp,       \* the interpreter's division of two ints: "py2" or "py3"
    StateSub,     \* vehicle state source: phi, theta, Va, alt, chi
    GPSDataSub,   \* GPS source: numSat
    ConComSub,    \* commanded-control source: enabled, Va_c, h_c
    ConInSub,     \* commanded-attitude source: enabled, theta_c
    BatterySub,   \* battery source: enabled, voltage, voltage_percent
    widget,       \* the ArtificialHorizon object's attributes
    painter,      \* the QPainter of the current paint event: transform, pen
    canvas,       \* what the renderers of the current paint event have drawn
    pc            \* position in drawArtificialHorizon (0 = no paint event)

sources == <<StateSub, GPSDataSub, ConComSub, ConInSub, BatterySub>>
vars == <<interp, StateSub, GPSDataSub, ConComSub, ConInSub, BatterySub,
          widget, painter, canvas, pc>>

\* the pipeline with the speed and altitude tapes drawn in the other order
PipelineTapesSwapped ==
    << "extract", "drawSky", "enterFrame", "drawGround", "drawPitchIndicator",
       "exitPitch", "drawTurnIndicator", "exitRoll", "drawAircraftSymbol",
       "drawAltitudeIndicator", "drawAirspeedIndicator",
       "drawHeadingIndicator", "drawNumSatellites", "drawOutputIndicator",
       "drawBatteryMonitor" >>

\* ------------------------------------------------------------ the pipeline
\* The statements of drawArtificialHorizon, in program order
Pipeline ==
    << "extract", "drawSky", "enterFrame", "drawGround", "drawPitchIndicator",
       "exitPitch", "drawTurnIndicator", "exitRoll", "drawAircraftSymbol",
       "drawAirspeedIndicator", "drawAltitudeIndicator",
       "drawHeadingIndicator", "drawNumSatellites", "drawOutputIndicator",
       "drawBatteryMonitor" >>

At(stmt) == pc \in 1..Len(Pipeline) /\ Pipeline[pc] = stmt
Done == pc = Len(Pipeline) + 1
Idle == pc = 0 \/ Done

\* a QPen of a colour and a width: solid line, the default square cap
Pen(color, width) == [color |-> color, width |-> width, cap |-> "square"]

\* a QPen made with QtCore.Qt.RoundCap
RoundPen(color, width) == [color |-> color, width |-> width, cap |-> "round"]
DefaultPen == Pen("black", 1)

\* nothing drawn yet
Blank ==
    [calls |-> <<>>,
     ladder |-> {}, ladderSub |-> {}, cmdPitch |-> {}, pitchPens |-> <<>>,
     turnTicks |-> <<>>, turnPointer |-> {},
     speedTicks |-> {}, speedTri |-> {}, speedBox |-> {}, speedRead |-> {},
     altTicks |-> {}, altTri |-> {}, altBox |-> {}, altRead |-> {},
     headingTicks |-> {}, headingBox |-> {},
     sat |-> {}, battery |-> {}]

\* a renderer is entered: its name and the transform it is entered with
Called(c, fn) == [c EXCEPT !.calls = Append(@, [fn |-> fn, tf |-> painter.transform])]

\* initUI
InitWidget ==
    [width |-> 600, height |-> 600, roll |-> 0, pitch |-> 0, speed |-> 0,
     altitude |-> 0, heading |-> 0, numSat |-> 0]

\* resizeEvent: stores the new size; Qt delivers it between paint events
ResizeEvent ==
    /\ Idle
    /\ \E w \in 600..(600 + MaxResize), h \in 600..(600 + MaxResize) :
          widget' = [widget EXCEPT !.width = w, !.height = h]
    /\ UNCHANGED <<interp, sources, painter, canvas, pc>>

\* paintEvent: a new painter begins on the widget
PaintEvent ==
    /\ Idle
    /\ pc' = 1
    /\ painter' = [transform |-> Identity, pen |-> DefaultPen]
    /\ canvas' = Blank
    /\ UNCHANGED <<interp, sources, widget>>

\* int(math.floor(x)) of a source value x given in 1/Res
Floor(x) == x \div Res

\* drawArtificialHorizon, "extract relevant values here from subscribers"
ExtractValues ==
    /\ At("extract")
    /\ widget' = [widget EXCEPT
                    !.roll = Floor(StateSub.phi),
                    !.pitch = Floor(StateSub.theta),
                    !.speed = Floor(StateSub.Va),
                    !.altitude = Floor(StateSub.alt),
                    !.heading = Floor(StateSub.chi) % 360,
                    !.numSat = GPSDataSub.numSat]
    /\ pc' = pc + 1
    /\ UNCHANGED <<interp, sources, painter, canvas>>

\* drawSky: fills the viewport
DrawSky ==
    /\ At("drawSky")
    /\ canvas' = Called(canvas, "drawSky")
    /\ pc' = pc + 1
    /\ UNCHANGED <<interp, sources, widget, painter>>

\* n / 2 for an int n, in painter lengths: Python 2 floors, Python 3 does not
Half(n) == IF interp = "py2" THEN 1000 * (n \div 2) ELSE (1000 * n) \div 2

\* self.height * (k * self.pitch * self.pitchInterval), in painter lengths
PitchOffset(k) == widget.height * (k * widget.pitch * pitchInterval)

\* the four painter calls that enter the roll+pitch frame
EnterFrame ==
    /\ At("enterFrame")
    /\ LET m0 == painter.transform
           m1 == Translate(m0, <<Half(widget.width), Half(widget.height)>>)
           m2 == Rotate(m1, -widget.roll)
           m3 == Translate(m2, <<Half(-widget.width), Half(-widget.height)>>)
           m4 == Translate(m3, <<0, PitchOffset(1)>>)
       IN  painter' = [painter EXCEPT !.transform = m4]
    /\ pc' = pc + 1
    /\ UNCHANGED <<interp, sources, widget, canvas>>

\* drawGround: ground fill, then the white horizon line
DrawGround ==
    /\ At("drawGround")
    /\ canvas' = Called(canvas, "drawGround")
    /\ painter' = [painter EXCEPT !.pen = RoundPen("white", 2)]
    /\ pc' = pc + 1
    /\ UNCHANGED <<interp, sources, widget>>

\* ------------------------------------------------------------ pitch ladder
Abs(n) == IF n < 0 THEN -n ELSE n

\* minHeight and maxHeight of drawPitchIndicator, in thousandths
MinHeight == 150 - widget.pitch * pitchInterval
MaxHeight == 850 - widget.pitch * pitchInterval

\* the visibility test of drawPitchIndicator: minHeight < height < maxHeight
Visible(height) == MinHeight < height /\ height < MaxHeight

\* the values of i in "for i in range(-9, 9)"
LadderRange == (-9)..(9 - 1)

\* height of the major line of step i: 0.5 - pitchInterval * 10 * i
MajorHeight(i) == 500 - pitchInterval * 10 * i

\* height of the sub-marker of step i: height - pitchInterval * 5
SubHeight(i) == MajorHeight(i) - pitchInterval * 5

\* 0.5 - pitchInterval * pitch_command; ConInSub.theta_c is given in the
\* unit in which pitchInterval * math.degrees(theta_c) is one thousandth
CommandHeight == 500 - ConInSub.theta_c

\* the pens with the restoring setPen left out
PitchPensNoRestore(enabled) ==
    IF enabled THEN <<RoundPen("yellow", 4)>> ELSE <<>>

\* the pens drawPitchIndicator sets, in order: under "if ConInSub.enabled",
\* the marker's pen before the test of the window and the white pen after it
PitchPens(enabled) ==
    IF enabled THEN <<RoundPen("yellow", 4), RoundPen("white", 2)>> ELSE <<>>

\* drawPitchIndicator: the ladder, then the commanded-pitch marker
DrawPitchIndicator ==
    /\ At("drawPitchIndicator")
    /\ LET c1 == Called(canvas, "drawPitchIndicator")
           major == {[a |-> 10 * i, height |-> MajorHeight(i),
                      text |-> ToString(10 * Abs(i)), pen |-> painter.pen] :
                        i \in {j \in LadderRange : Visible(MajorHeight(j))}}
           minor == {[a |-> 10 * i + 5, height |-> SubHeight(i)] :
                        i \in {j \in LadderRange : Visible(SubHeight(j))}}
           pens == PitchPens(ConInSub.enabled)
           marker == IF ConInSub.enabled /\ Visible(CommandHeight)
                     THEN {[height |-> CommandHeight, pen |-> pens[1]]}
                     ELSE {}
       IN  /\ canvas' = [c1 EXCEPT !.ladder = major, !.ladderSub = minor,
                                    !.cmdPitch = marker, !.pitchPens = pens]
           /\ painter' = IF pens = <<>>
                         THEN painter
                         ELSE [painter EXCEPT !.pen = pens[Len(pens)]]
    /\ pc' = pc + 1
    /\ UNCHANGED <<interp, sources, widget>>

\* painter.translate(0, self.height * (-1 * self.pitch * self.pitchInterval))
ExitPitch ==
    /\ At("exitPitch")
    /\ painter' = [painter EXCEPT
                     !.transform = Translate(@, <<0, PitchOffset(-1)>>)]
    /\ pc' = pc + 1
    /\ UNCHANGED <<interp, sources, widget, canvas>>

\* ----------------------------------------------------------- turn indicator
\* angles of drawTurnIndicator
angles == <<-60, -45, -30, -20, -10, 0, 10, 20, 30, 45, 60>>

\* (xCenter, yCenter): xCenter = width / 2, yCenter = radius + yOffset
\* with radius = width * 0.3 and yOffset = height * 0.10
TurnCenter == <<Half(widget.width), 300 * widget.width + 100 * widget.height>>

\* the tick loop from tick k on: each tick is drawn in the frame rotated by
\* its angle about the centre, and the frame is rotated back afterwards
RECURSIVE TurnTicks(_, _, _)
TurnTicks(M, k, drawn) ==
    IF k > Len(angles) THEN [tf |-> M, ticks |-> drawn]
    ELSE LET m1 == RotateAbout(M, TurnCenter, angles[k])
             m2 == RotateAbout(m1, TurnCenter, -angles[k])
         IN  TurnTicks(m2, k + 1,
                       Append(drawn, [angle |-> angles[k], before |-> M,
                                      tf |-> m1, text |-> ToString(angles[k])]))

\* drawTurnIndicator: arc, ticks, then the pointer rotated by the roll
DrawTurnIndicator ==
    /\ At("drawTurnIndicator")
    /\ LET c1 == Called(canvas, "drawTurnIndicator")
           loop == TurnTicks(painter.transform, 1, <<>>)
           m1 == RotateAbout(loop.tf, TurnCenter, widget.roll)
           m2 == RotateAbout(m1, TurnCenter, -widget.roll)
       IN  /\ canvas' = [c1 EXCEPT !.turnTicks = loop.ticks,
                                    !.turnPointer = {[before |-> loop.tf, tf |-> m1]}]
           /\ painter' = [transform |-> m2, pen |-> RoundPen("white", 2)]
    /\ pc' = pc + 1
    /\ UNCHANGED <<interp, sources, widget>>

\* the three painter calls that undo the roll rotation
ExitRoll ==
    /\ At("exitRoll")
    /\ LET m0 == painter.transform
           m1 == Translate(m0, <<Half(widget.width), Half(widget.height)>>)
           m2 == Rotate(m1, widget.roll)
           m3 == Translate(m2, <<Half(-widget.width), Half(-widget.height)>>)
       IN  painter' = [painter EXCEPT !.transform = m3]
    /\ pc' = pc + 1
    /\ UNCHANGED <<interp, sources, widget, canvas>>

\* drawAircraftSymbol: the fixed polygon and the two wing lines
DrawAircraftSymbol ==
    /\ At("drawAircraftSymbol")
    /\ canvas' = Called(canvas, "drawAircraftSymbol")
    /\ painter' = [painter EXCEPT !.pen = RoundPen("yellow", 5)]
    /\ pc' = pc + 1
    /\ UNCHANGED <<interp, sources, widget>>

\* -------------------------------------------------------------------- tapes
\* the values of i in "for i in range(c - n, c + n)"
Range(c, n) == (c - n)..(c + n - 1)

\* "if i % 10 == 0 and i >= 0" of drawAirspeedIndicator
SpeedTick(i) == i % 10 = 0 /\ i >= 0

\* "if i % 10 == 0" of drawAltitudeIndicator and drawHeadingIndicator
Tick(i) == i % 10 = 0

\* y of a tape tick: height * 0.5 + (current - i) * scale * height
TickY(current, i) == 500 * widget.height + (current - i) * 10 * widget.height

\* y of a commanded value cmd (given in 1/Res), in 1/Res of a painter length:
\* height * .5 + (current - cmd) * scale * height
CommandY(current, cmd) ==
    Res * 500 * widget.height + (Res * current - cmd) * 10 * widget.height

\* (height - boxHeight) / 2 and (height + boxHeight) / 2 with
\* boxHeight = height * 0.6, in 1/Res of a painter length
PanelTop == Res * ((1000 * widget.height - 600 * widget.height) \div 2)
PanelBottom == Res * ((1000 * widget.height + 600 * widget.height) \div 2)

\* the panel test with the edges left out
InPanelStrict(y) == PanelTop < y /\ y < PanelBottom

\* "(height - boxHeight) / 2 <= y <= (height + boxHeight) / 2"
InPanel(y) == PanelTop <= y /\ y <= PanelBottom

\* drawAirspeedIndicator: ticks, commanded triangle, pointer box
DrawAirspeedIndicator ==
    /\ At("drawAirspeedIndicator")
    /\ LET c1 == Called(canvas, "drawAirspeedIndicator")
           ticks == {[v |-> i, y |-> TickY(widget.speed, i), text |-> ToString(i)] :
                       i \in {j \in Range(widget.speed, 29) : SpeedTick(j)}}
           va_c_y == CommandY(widget.speed, ConComSub.Va_c)
           tri == IF ConComSub.enabled /\ InPanel(va_c_y)
                  THEN {[y |-> va_c_y]} ELSE {}
       IN  canvas' = [c1 EXCEPT !.speedTicks = ticks, !.speedTri = tri,
                                 !.speedRead = {ConComSub.enabled},
                                 !.speedBox = {ToString(widget.speed) \o " m/s"}]
    /\ painter' = [painter EXCEPT !.pen = RoundPen("yellow", 2)]
    /\ pc' = pc + 1
    /\ UNCHANGED <<interp, sources, widget>>

\* drawAltitudeIndicator: ticks, commanded triangle, pointer box
DrawAltitudeIndicator ==
    /\ At("drawAltitudeIndicator")
    /\ LET c1 == Called(canvas, "drawAltitudeIndicator")
           ticks == {[v |-> i, y |-> TickY(widget.altitude, i), text |-> ToString(i)] :
                       i \in {j \in Range(widget.altitude, 29) : Tick(j)}}
           alt_c_y == CommandY(widget.altitude, ConComSub.h_c)
           tri == IF ConComSub.enabled /\ InPanel(alt_c_y)
                  THEN {[y |-> alt_c_y]} ELSE {}
       IN  canvas' = [c1 EXCEPT !.altTicks = ticks, !.altTri = tri,
                                 !.altRead = {ConComSub.enabled},
                                 !.altBox = {ToString(widget.altitude) \o " m"}]
    /\ painter' = [painter EXCEPT !.pen = Pen("yellow", 2)]
    /\ pc' = pc + 1
    /\ UNCHANGED <<interp, sources, widget>>

\* directions of drawHeadingIndicator
directions ==
    (0 :> "N") @@ (45 :> "NE") @@ (90 :> "E") @@ (135 :> "SE") @@
    (180 :> "S") @@ (215 :> "SW") @@ (270 :> "W") @@ (315 :> "NW")

\* the wrap without the final modulo
WrapNegativeOnly(i) == IF i < 0 THEN i + 360 ELSE i

\* "if i < 0: i += 360" then "i = i % 360"
Wrap(i) == (IF i < 0 THEN i + 360 ELSE i) % 360

\* text = str(i), replaced by directions[i] if i in directions
HeadingText(i) == IF i \in DOMAIN directions THEN directions[i] ELSE ToString(i)

\* x of a heading tick: width * 0.5 - (heading - i) * scale * width
TickX(i) == 500 * widget.width - (widget.heading - i) * 10 * widget.width

\* drawHeadingIndicator: ticks with wrapped labels, pointer box; the degree
\* sign of the pointer box is written "deg"
DrawHeadingIndicator ==
    /\ At("drawHeadingIndicator")
    /\ LET c1 == Called(canvas, "drawHeadingIndicator")
           ticks == {[v |-> i, x |-> TickX(i), label |-> Wrap(i),
                      text |-> HeadingText(Wrap(i))] :
                       i \in {j \in Range(widget.heading, 49) : Tick(j)}}
       IN  canvas' = [c1 EXCEPT !.headingTicks = ticks,
                                 !.headingBox = {[value |-> widget.heading,
                                    text |-> ToString(widget.heading) \o "deg"]}]
    /\ painter' = [painter EXCEPT !.pen = RoundPen("yellow", 2)]
    /\ pc' = pc + 1
    /\ UNCHANGED <<interp, sources, widget>>

\* ---------------------------------------------------------- status overlays
\* the colour with the threshold one too high
SatColorAbove4(n) == IF n <= 4 THEN "red" ELSE "green"

\* the pen colour chosen by "if self.numSat < 4"
SatColor(n) == IF n < 4 THEN "red" ELSE "green"

\* drawNumSatellites
DrawNumSatellites ==
    /\ At("drawNumSatellites")
    /\ LET c1 == Called(canvas, "drawNumSatellites")
           pen == Pen(SatColor(widget.numSat), 2)
       IN  /\ canvas' = [c1 EXCEPT !.sat =
                 {[text |-> "GPS: " \o ToString(widget.numSat) \o " satellites",
                   pen |-> pen]}]
           /\ painter' = [painter EXCEPT !.pen = pen]
    /\ pc' = pc + 1
    /\ UNCHANGED <<interp, sources, widget>>

\* drawOutputIndicator: returns at once
DrawOutputIndicator ==
    /\ At("drawOutputIndicator")
    /\ canvas' = Called(canvas, "drawOutputIndicator")
    /\ pc' = pc + 1
    /\ UNCHANGED <<interp, sources, widget, painter>>

\* "{0:.1f}V".format(voltage) for a voltage given in tenths of a volt
VoltageText(v) == ToString(v \div 10) \o "." \o ToString(v % 10) \o "V"

\* int(battery_width * voltage_percent / 100), battery_width = width * .13
FillWidth(percent) == (13 * widget.width * percent) \div 10000

\* the battery bar drawn whatever the flag
BatteryDrawnAlways(enabled) == TRUE

\* "if BatterySub.enabled" of drawBatteryMonitor
BatteryDrawn(enabled) == enabled

\* drawBatteryMonitor: the bar and the voltage label, when enabled
DrawBatteryMonitor ==
    /\ At("drawBatteryMonitor")
    /\ LET c1 == Called(canvas, "drawBatteryMonitor")
       IN  IF BatteryDrawn(BatterySub.enabled)
           THEN /\ canvas' = [c1 EXCEPT !.battery =
                      {[fill |-> FillWidth(BatterySub.voltage_percent),
                        text |-> VoltageText(BatterySub.voltage)]}]
                /\ painter' = [painter EXCEPT !.pen = Pen("black", 1)]
           ELSE /\ canvas' = c1
                /\ painter' = painter
    /\ pc' = pc + 1
    /\ UNCHANGED <<interp, sources, widget>>

\* ------------------------------------------------------- telemetry sources
\* The sources are class attributes written by the subscribers' callbacks of
\* map_subscribers, which rospy runs on its own threads.
State(phi, theta, Va, alt, chi) ==
    [phi |-> phi, theta |-> theta, Va |-> Va, alt |-> alt, chi |-> chi]
ConCom(enabled, Va_c, h_c) == [enabled |-> enabled, Va_c |-> Va_c, h_c |-> h_c]
ConIn(enabled, theta_c) == [enabled |-> enabled, theta_c |-> theta_c]
Battery(enabled, voltage, percent) ==
    [enabled |-> enabled, voltage |-> voltage, voltage_percent |-> percent]

\* level flight at 120 m/s, 1500 m, heading west
StateBase == State(0, 0, 120 * Res, 1500 * Res, 270 * Res)
ConComOff == ConCom(FALSE, 0, 0)
ConInOff == ConIn(FALSE, 0)
BatteryOff == Battery(FALSE, 0, 0)

\* messages delivered while the display runs
StateMsgs == {StateBase, State(30 * Res, 10 * Res, 121 * Res, 1499 * Res, -90 * Res - 1)}
GPSMsgs == {[numSat |-> 3], [numSat |-> 4]}
ConComMsgs == {ConComOff, ConCom(TRUE, 90 * Res, 1530 * Res)}
ConInMsgs == {ConInOff, ConIn(TRUE, 5 * pitchInterval)}
BatteryMsgs == {BatteryOff, Battery(TRUE, 118, 75)}

StateCallback ==
    /\ \E m \in StateMsgs : StateSub' = m
    /\ UNCHANGED <<interp, GPSDataSub, ConComSub, ConInSub, BatterySub,
                   widget, painter, canvas, pc>>

GPSCallback ==
    /\ \E m \in GPSMsgs : GPSDataSub' = m
    /\ UNCHANGED <<interp, StateSub, ConComSub, ConInSub, BatterySub,
                   widget, painter, canvas, pc>>

ConComCallback ==
    /\ \E m \in ConComMsgs : ConComSub' = m
    /\ UNCHANGED <<interp, StateSub, GPSDataSub, ConInSub, BatterySub,
                   widget, painter, canvas, pc>>

ConInCallback ==
    /\ \E m \in ConInMsgs : ConInSub' = m
    /\ UNCHANGED <<interp, StateSub, GPSDataSub, ConComSub, BatterySub,
                   widget, painter, canvas, pc>>

BatteryCallback ==
    /\ \E m \in BatteryMsgs : BatterySub' = m
    /\ UNCHANGED <<interp, StateSub, GPSDataSub, ConComSub, ConInSub,
                   widget, painter, canvas, pc>>

\* ------------------------------------------------------------ specification
\* The widget after construction, before the first paint event; the sources
\* hold what their first messages delivered.
Init ==
    /\ interp \in {"py2", "py3"}
    /\ StateSub \in StateMsgs
    /\ GPSDataSub \in GPSMsgs
    /\ ConComSub \in ConComMsgs
    /\ ConInSub \in ConInMsgs
    /\ BatterySub \in BatteryMsgs
    /\ widget = InitWidget
    /\ painter = [transform |-> Identity, pen |-> DefaultPen]
    /\ canvas = Blank
    /\ pc = 0

\* one statement of drawArtificialHorizon
Step ==
    \/ ExtractValues
    \/ DrawSky
    \/ EnterFrame
    \/ DrawGround
    \/ DrawPitchIndicator
    \/ ExitPitch
    \/ DrawTurnIndicator
    \/ ExitRoll
    \/ DrawAircraftSymbol
    \/ DrawAirspeedIndicator
    \/ DrawAltitudeIndicator
    \/ DrawHeadingIndicator
    \/ DrawNumSatellites
    \/ DrawOutputIndicator
    \/ DrawBatteryMonitor

Next ==
    \/ PaintEvent
    \/ ResizeEvent
    \/ Step
    \/ StateCallback
    \/ GPSCallback
    \/ ConComCallback
    \/ ConInCallback
    \/ BatteryCallback

Spec == Init /\ [][Next]_vars

\* --------------------------------------------- one redraw of a fixed snapshot
\* The pipeline as a function of its inputs: the sources and the viewport
\* size are drawn once and do not change while the display redraws.
Scenario(state, gps, concom, conin, battery, w, h) ==
    [state |-> state, gps |-> gps, concom |-> concom, conin |-> conin,
     battery |-> battery, w |-> w, h |-> h]

Sides == 600..(600 + MaxResize)

\* every roll in [-180, 180], pitched up, on every viewport size
AttitudeScenarios ==
    {Scenario(State(phi, theta, 120 * Res, 1500 * Res, 270 * Res),
              [numSat |-> 6], ConComOff, ConInOff, BatteryOff, w, h) :
        phi \in (-180 * Res)..(180 * Res), theta \in {10 * Res},
        w \in Sides, h \in Sides}

\* commanded pitch heights around the two bounds of the visibility window
CommandOffsets == {0, 349, 350, 351, -349, -350, -351}

\* every pitch in [-90, 90], without and with a commanded pitch
LadderScenarios ==
    {Scenario(State(0, theta, 120 * Res, 1500 * Res, 270 * Res),
              [numSat |-> 6], ConComOff, conin, BatteryOff, 600, 600) :
        theta \in (-90 * Res)..(90 * Res), conin \in {ConInOff}}
    \cup
    {Scenario(State(0, Res * p, 120 * Res, 1500 * Res, 270 * Res),
              [numSat |-> 6], ConComOff, ConIn(TRUE, p * pitchInterval + d),
              BatteryOff, 600, 600) :
        p \in (-90)..90, d \in CommandOffsets}

\* every heading the source can deliver, negative and overflowing included
HeadingScenarios ==
    {Scenario(State(0, 0, 120 * Res, 1500 * Res, chi),
              [numSat |-> 6], ConComOff, ConInOff, BatteryOff, 600, 600) :
        chi \in (-MaxChi * Res)..(MaxChi * Res)}

\* commanded values around the two edges of the tape panel, in 1/Res
EdgeOffsets == {0, 30 * Res, 30 * Res + 1, 30 * Res - 1,
                -30 * Res, -30 * Res - 1, -30 * Res + 1}

\* every speed and altitude of the sweep, without and with commanded values
TapeScenarios ==
    {Scenario(State(0, 0, v, v, 270 * Res),
              [numSat |-> 6], ConComOff, ConInOff, BatteryOff, 600, 600) :
        v \in (-MaxTape * Res)..(MaxTape * Res)}
    \cup
    {Scenario(State(0, 0, Res * c, Res * c, 270 * Res),
              [numSat |-> 6],
              ConCom(TRUE, Res * c - (IF k = 2 THEN 0 ELSE d),
                           Res * c - (IF k = 1 THEN 0 ELSE d)),
              ConInOff, BatteryOff, 600, h) :
        c \in (-MaxTape)..MaxTape, d \in EdgeOffsets, k \in 1..3,
        h \in {600, 601}}

\* every satellite count, with every combination of the enabled flags
StatusScenarios ==
    {Scenario(StateBase, [numSat |-> n],
              ConCom(cc, 110 * Res, 1510 * Res), ConIn(ci, 5 * pitchInterval),
              Battery(b, 118, 75), 600, 600) :
        n \in 0..MaxSat, cc \in BOOLEAN, ci \in BOOLEAN, b \in BOOLEAN}

Scenarios ==
    AttitudeScenarios \cup LadderScenarios \cup HeadingScenarios
        \cup TapeScenarios \cup StatusScenarios

SeqInit ==
    /\ interp \in {"py2", "py3"}
    /\ \E s \in Scenarios :
          /\ StateSub = s.state
          /\ GPSDataSub = s.gps
          /\ ConComSub = s.concom
          /\ ConInSub = s.conin
          /\ BatterySub = s.battery
          /\ widget = [InitWidget EXCEPT !.width = s.w, !.height = s.h]
    /\ painter = [transform |-> Identity, pen |-> DefaultPen]
    /\ canvas = Blank
    /\ pc = 0

SeqNext ==
    \/ PaintEvent
    \/ Step

SeqSpec == SeqInit /\ [][SeqNext]_vars

\* ================================================================== claims
\* names of the renderers entered so far in the current redraw
CallNames == [k \in 1..Len(canvas.calls) |-> canvas.calls[k].fn]

\* the renderers that draw in screen coordinates, after the frame is left
Overlays ==
    {"drawAircraftSymbol", "drawAirspeedIndicator", "drawAltitudeIndicator",
     "drawHeadingIndicator", "drawNumSatellites", "drawBatteryMonitor"}

\* C1: for every roll and pitch, once the roll+pitch frame has been entered
\* and exited the painter transform is the one before entry (the identity of
\* a fresh painter), so the aircraft symbol and every later overlay are
\* entered with zero net rotation and zero net translation.
C1_FrameRestored ==
    \A r \in Overlays : At(r) => painter.transform = Identity

\* the renderers of the claimed order
RendererOrder ==
    << "drawSky", "drawGround", "drawPitchIndicator", "drawTurnIndicator",
       "drawAircraftSymbol", "drawAirspeedIndicator", "drawAltitudeIndicator",
       "drawHeadingIndicator", "drawNumSatellites", "drawBatteryMonitor" >>

InOrder(fn) == \E k \in 1..Len(RendererOrder) : RendererOrder[k] = fn

\* the renderers of the claimed order entered so far
Rendered == SelectSeq(CallNames, InOrder)

\* C2: in every redraw the renderers are invoked exactly once each, in the
\* order sky, ground, pitch ladder, turn indicator, aircraft symbol, speed
\* tape, altitude tape, heading tape, satellite text, battery bar; the frame
\* is entered between sky and ground, the pitch translation is undone between
\* pitch ladder and turn indicator, and the roll rotation is undone between
\* turn indicator and aircraft symbol.
C2_RendererOrder ==
    /\ Len(Rendered) <= Len(RendererOrder)
    /\ Rendered = SubSeq(RendererOrder, 1, Len(Rendered))
    /\ Done => Rendered = RendererOrder
    /\ At("enterFrame") => Rendered = SubSeq(RendererOrder, 1, 1)
    /\ At("drawGround") => Rendered = SubSeq(RendererOrder, 1, 1)
    /\ At("exitPitch") => Rendered = SubSeq(RendererOrder, 1, 3)
    /\ At("drawTurnIndicator") => Rendered = SubSeq(RendererOrder, 1, 3)
    /\ At("exitRoll") => Rendered = SubSeq(RendererOrder, 1, 4)
    /\ At("drawAircraftSymbol") => Rendered = SubSeq(RendererOrder, 1, 4)
    /\ pc \in 0..1 => Rendered = <<>>

\* C2 witness: a redraw with a rolled frame has run all ten renderers
C2_Witness ==
    /\ Done
    /\ widget.roll = 30
    /\ Rendered = RendererOrder

\* the viewport centre, in painter lengths
ViewportCentre == <<500 * widget.width, 500 * widget.height>>

\* rotation by -roll about the viewport centre
RollFrame == RotateAbout(Identity, ViewportCentre, -widget.roll)

\* ... followed by the vertical translation height * pitch * pitchInterval
RollPitchFrame ==
    Translate(RollFrame, <<0, widget.height * widget.pitch * pitchInterval>>)

\* C3: drawGround and drawPitchIndicator are entered with the rotation by
\* -roll about the viewport centre followed by the pitch translation, and
\* drawTurnIndicator with the rotation by -roll about the viewport centre
\* alone.
C3_FrameAtCall ==
    /\ At("drawGround") => painter.transform = RollPitchFrame
    /\ At("drawPitchIndicator") => painter.transform = RollPitchFrame
    /\ At("drawTurnIndicator") => painter.transform = RollFrame

\* C4: the renderers of one redraw draw from one snapshot of the sources; in
\* particular the speed tape and the altitude tape of a finished redraw have
\* seen the same commanded-control enabled flag.
C4_SingleSnapshot ==
    Done => canvas.speedRead = canvas.altRead

\* C5: whatever the three enabled flags are, the redraw runs every renderer;
\* a disabled channel draws none of its own overlay (commanded-pitch marker;
\* commanded speed and altitude triangles; battery bar and label), and an
\* enabled channel whose value is in range draws it whatever the other flags
\* are; sky, ground, ladder, turn indicator, aircraft symbol, the three tapes
\* and the satellite text are drawn in every case.
C5_SuppressOnlyOwn ==
    Done =>
      /\ Rendered = RendererOrder
      /\ canvas.ladder # {}
      /\ Len(canvas.turnTicks) = 11
      /\ canvas.speedBox # {} /\ canvas.altBox # {} /\ canvas.headingBox # {}
      /\ canvas.sat # {}
      /\ ~ConInSub.enabled => canvas.cmdPitch = {}
      /\ ~ConComSub.enabled => canvas.speedTri = {} /\ canvas.altTri = {}
      /\ ~BatterySub.enabled => canvas.battery = {}
      /\ BatterySub.enabled => canvas.battery # {}
      /\ (ConInSub.enabled
            /\ Abs(ConInSub.theta_c - 13 * widget.pitch) < 350)
           => canvas.cmdPitch # {}
      /\ (ConComSub.enabled
            /\ Abs(Res * widget.speed - ConComSub.Va_c) <= 30 * Res)
           => canvas.speedTri # {}
      /\ (ConComSub.enabled
            /\ Abs(Res * widget.altitude - ConComSub.h_c) <= 30 * Res)
           => canvas.altTri # {}

\* C5 witness: a finished redraw with all three channels disabled
C5_Witness ==
    /\ Done
    /\ ~ConInSub.enabled /\ ~ConComSub.enabled /\ ~BatterySub.enabled
    /\ canvas.cmdPitch = {} /\ canvas.speedTri = {} /\ canvas.altTri = {}
    /\ canvas.battery = {}
    /\ Rendered = RendererOrder

\* the compass points and the tick values they belong to
CompassPoints ==
    (0 :> "N") @@ (45 :> "NE") @@ (90 :> "E") @@ (135 :> "SE") @@
    (180 :> "S") @@ (225 :> "SW") @@ (270 :> "W") @@ (315 :> "NW")

CompassNames == {CompassPoints[k] : k \in DOMAIN CompassPoints}

Window(c, n) == {v \in (c - n)..(c + n) : v % 10 = 0}

Values(ticks) == {t.v : t \in ticks}

\* C7: the speed and altitude tapes draw a tick for v if and only if v is a
\* multiple of 10 with c-29 <= v <= c+29 (speed: and v >= 0); the heading
\* tape if and only if v is a multiple of 10 with c-49 <= v <= c+49.
C7_TickWindow ==
    Done =>
      /\ Values(canvas.speedTicks) = {v \in Window(widget.speed, 29) : v >= 0}
      /\ Values(canvas.altTicks) = Window(widget.altitude, 29)
      /\ Values(canvas.headingTicks) = Window(widget.heading, 49)

\* the claimed test of a commanded value cmd (in 1/Res) against the panel, in
\* 1/(100 * Res) pixel: height*0.5 + (current - cmd)*0.01*height within
\* [(height - boxHeight)/2, (height + boxHeight)/2], boxHeight = 0.6*height
MappedY(current, cmd) ==
    50 * Res * widget.height + (Res * current - cmd) * widget.height

OnPanel(y) ==
    /\ 20 * Res * widget.height <= y
    /\ y <= 80 * Res * widget.height

\* C8: with commanded-control enabled, the commanded speed triangle and the
\* commanded altitude triangle are drawn if and only if the mapped y lies in
\* the closed panel interval; a drawn triangle sits at the mapped y itself,
\* and the tape's ticks and pointer box are drawn either way.
C8_CommandTriangle ==
    (Done /\ ConComSub.enabled) =>
      /\ canvas.speedTri # {} <=> OnPanel(MappedY(widget.speed, ConComSub.Va_c))
      /\ canvas.altTri # {} <=> OnPanel(MappedY(widget.altitude, ConComSub.h_c))
      /\ \A t \in canvas.speedTri :
            100 * t.y = 1000 * MappedY(widget.speed, ConComSub.Va_c)
      /\ \A t \in canvas.altTri :
            100 * t.y = 1000 * MappedY(widget.altitude, ConComSub.h_c)
      /\ canvas.speedBox = {ToString(widget.speed) \o " m/s"}
      /\ canvas.altBox = {ToString(widget.altitude) \o " m"}
      /\ canvas.altTicks # {}

\* C8 witness: a commanded speed exactly on the top edge of the panel is
\* drawn, at the edge
C8_Witness ==
    /\ Done
    /\ ConComSub.enabled
    /\ ConComSub.Va_c = Res * widget.speed + 30 * Res
    /\ canvas.speedTri = {[y |-> Res * 200 * widget.height]}

\* the angles of the claimed ladder: every 10 degrees within +/-90
LadderAngles == {10 * k : k \in (-9)..9}

\* strictly inside the claimed window, heights in thousandths
InWindow(height) ==
    /\ 150 - widget.pitch * 13 < height
    /\ height < 850 - widget.pitch * 13

\* C9: the ladder draws the major line of angle a, for every a in -90, -80,
\* ..., 90, if and only if 0.5 - pitchInterval*a lies strictly between
\* 0.15 - pitch*pitchInterval and 0.85 - pitch*pitchInterval, with
\* pitchInterval = 0.013; the commanded-pitch marker passes the same test.
C9_LadderWindow ==
    Done =>
      /\ {l.a : l \in canvas.ladder} = {a \in LadderAngles : InWindow(500 - 13 * a)}
      /\ ConInSub.enabled =>
            (canvas.cmdPitch # {} <=> InWindow(500 - ConInSub.theta_c))

\* C10: the satellite text reads "GPS: n satellites" for the count n of the
\* GPS source, in red when n < 4 and in green when n >= 4.
C10_SatelliteColour ==
    /\ Done => canvas.sat # {}
    /\ \A s \in canvas.sat :
          /\ s.text = "GPS: " \o ToString(GPSDataSub.numSat) \o " satellites"
          /\ GPSDataSub.numSat < 4 => s.pen.color = "red"
          /\ GPSDataSub.numSat >= 4 => s.pen.color = "green"
          /\ GPSDataSub.numSat = 3 => s.text = "GPS: 3 satellites"

\* C10 witness: four satellites are drawn in green
C10_Witness ==
    /\ Done
    /\ GPSDataSub.numSat = 4
    /\ canvas.sat = {[text |-> "GPS: 4 satellites", pen |-> Pen("green", 2)]}

\* the transform drawTurnIndicator was entered with in the current redraw
TurnEntry ==
    {canvas.calls[k].tf : k \in {j \in 1..Len(canvas.calls) :
                                   canvas.calls[j].fn = "drawTurnIndicator"}}

\* the centre of the arc drawn in the rectangle of left edge
\* width*0.5 - radius, top edge yOffset and side 2*radius, with
\* radius = width*0.3 and yOffset = height*0.10, in painter lengths
ArcCentre == <<500 * widget.width, 300 * widget.width + 100 * widget.height>>

\* every tick starts from the transform on entry, the pointer too, and the
\* transform on return is the transform on entry
TurnFrameRestored ==
    \A entry \in TurnEntry :
        /\ \A j \in 1..Len(canvas.turnTicks) : canvas.turnTicks[j].before = entry
        /\ \A p \in canvas.turnPointer : p.before = entry
        /\ At("exitRoll") => painter.transform = entry

\* the eleven ticks are drawn rotated by their angles, and the pointer by the
\* roll, about the centre of the arc
TurnAboutArcCentre ==
    \A entry \in TurnEntry :
        /\ Len(canvas.turnTicks) = 11
        /\ [j \in 1..11 |-> canvas.turnTicks[j].angle]
              = <<-60, -45, -30, -20, -10, 0, 10, 20, 30, 45, 60>>
        /\ \A j \in 1..Len(canvas.turnTicks) :
              canvas.turnTicks[j].tf
                 = RotateAbout(entry, ArcCentre, canvas.turnTicks[j].angle)
        /\ \A p \in canvas.turnPointer :
              p.tf = RotateAbout(entry, ArcCentre, widget.roll)

\* C11: each of the 11 ticks of drawTurnIndicator is drawn after rotating the
\* frame about the arc's centre by the tick angle and is followed by the
\* inverse rotation, so the transform before every tick is the transform on
\* entry; the pointer is drawn rotated by the current roll about the same
\* centre, and the transform on return is the transform on entry.
C11_TurnIndicatorFrame ==
    TurnFrameRestored /\ TurnAboutArcCentre

\* the pen drawGround leaves: white, width 2
GroundPen == [color |-> "white", width |-> 2, cap |-> "round"]

\* the pen of the commanded-pitch marker: yellow, width 4
MarkerPen == [color |-> "yellow", width |-> 4, cap |-> "round"]

\* C12: with commanded-attitude enabled the commanded-pitch marker is drawn
\* with a pen of another colour and width (yellow, 4), and on return from
\* drawPitchIndicator the pen is the pen on entry (white, 2, as drawGround
\* set it), whether or not the marker was inside the window; with
\* commanded-attitude disabled drawPitchIndicator sets no pen.
C12_PenRestored ==
    /\ At("drawPitchIndicator") => painter.pen = GroundPen
    /\ At("exitPitch") =>
          /\ painter.pen = GroundPen
          /\ \A l \in canvas.ladder : l.pen = GroundPen
          /\ \A m \in canvas.cmdPitch :
                /\ m.pen = MarkerPen
                /\ m.pen.color # GroundPen.color
                /\ m.pen.width # GroundPen.width
          /\ ConInSub.enabled => canvas.pitchPens = <<MarkerPen, GroundPen>>
          /\ ~ConInSub.enabled => canvas.pitchPens = <<>> /\ canvas.cmdPitch = {}

\* C12 witness: drawPitchIndicator has returned with commanded-attitude
\* enabled and the marker outside the window, and the pen is white, width 2
C12_Witness ==
    /\ At("exitPitch")
    /\ ConInSub.enabled
    /\ canvas.cmdPitch = {}
    /\ canvas.pitchPens # <<>>
    /\ painter.pen = GroundPen

====
